---- MODULE Spec2Model ----
(***************************************************************************)
(* A model of pkg/store/consul.go: the Consul-backed key/value store with  *)
(* watches (long-poll loops), session locks and CAS mutations.             *)
(*                                                                         *)
(* The Consul agent is the environment.  Its KV and session endpoints are  *)
(* linearizable, so each backend call is one atomic step; every call may   *)
(* also fail with a transport error.  The client's goroutines interleave   *)
(* between any two statements that touch shared state.                     *)
(***************************************************************************)
EXTENDS Integers, Sequences, FiniteSets, TLC

\* ---------------------------------------------------------------- bounds
\* keys, values, Acquire calls, plain writes (Put, Delete), Watch calls and
\* AtomicPut/AtomicDelete calls of a behaviour
MaxKeys == 1
MaxValues == 2
MaxAcquire == 2
MaxWrites == 2
MaxWatch == 2
MaxCas == 2

Keys == 1..MaxKeys
Values == 1..MaxValues
Acquirers == 1..MaxAcquire
\* The AtomicPut and AtomicDelete calls
CasCalls == 1..MaxCas
\* The Watch calls; call w creates the Watch object w and the goroutine w.
\* The locals of a call (wgot, lwatch, lwait, lmeta) hold their zero value
\* while they are out of scope.
Watchers == 1..MaxWatch
\* The session ids a caller may pass to Release: the ids this client's Acquire
\* calls create (call a creates session a) and one id it never created.
SessionIds == 1..(MaxAcquire + 1)
\* KVPair.Session of a pair no session holds (the zero value)
NoSession == 0

VARIABLES
    \* the backend (Consul agent)
    kv,          \* key -> [present, value, modIndex, session]
    index,       \* the raft index: advances with every write
    live,        \* the sessions alive on the backend
    \* Consul struct
    sessions,    \* s.sessions: id -> "absent" | "session" | "nil"
    crashed,     \* a nil dereference panicked: the process is gone
    \* Acquire calls
    apc, akey, aval, aret,
    \* history of the lock calls
    released,    \* Release(id) has returned nil
    arejected,   \* the backend rejected call a's session-tagged write
    aafter,      \* ... and Release(holder) had returned nil before that
    rlast,       \* what the last Release(id) found in s.sessions and returned
    \* s.watches: key -> absent | nil | *Watch
    wreg,        \* "absent" | "nil" | "watch"
    wobj,        \* the Watch object the entry points to, when wreg is "watch"
    lastIndex,   \* Watch.LastIndex of each Watch object
    \* Watch calls (lines 157-177)
    wpc, wkey, wret, wgot,
    \* the goroutine of waitForChange (lines 194-213) and its channel
    lpc, lwatch, lwait, lmeta, chClosed,
    \* history of the watches
    lerr,        \* the long-poll read of goroutine w failed
    wcancelled,  \* CancelWatch returned nil while watch w was registered
    cbVer,       \* the version of the pair the last callback of watch w got
    cwlast,      \* what the last CancelWatch call found in s.watches and
                 \* what it returned
    \* AtomicPut / AtomicDelete calls and what each one saw
    cop, ckey, cret,
    cfail,       \* the round trip failed
    cmatch,      \* the version of the key was the expected one
    cwas, cnow,  \* the key was there before the call, and after it
    csame,       \* the call left the pair of the key as it was
    csecond,     \* the call came right after an AtomicPut that applied with the
                 \* same key and expected version, no write in between
    casLast,     \* key, expected version and raft index of the last AtomicPut
                 \* that applied
    \* the backend's table by path, as Exists and GetRange read it
    tree,        \* i -> the value stored at StoredPaths[i], 0: no such pair
    elast,       \* the last Exists call: its key, outcome and result
    glast        \* the last GetRange call: its prefix, outcome and result

lockVars == <<sessions, apc, akey, aval, aret, released, arejected, aafter, rlast>>
watchVars == <<wreg, wobj, lastIndex, wpc, wkey, wret, wgot, lpc, lwatch, lwait,
               lmeta, chClosed, lerr, wcancelled, cbVer, cwlast>>
casVars == <<cop, ckey, cret, cfail, cmatch, cwas, cnow, csame, csecond, casLast>>
readVars == <<tree, elast, glast>>
vars == <<kv, index, live, crashed, lockVars, watchVars, casVars, readVars>>

\* ------------------------------------------------------------ the backend
NoPair == [present |-> FALSE, value |-> 0, modIndex |-> 0, session |-> NoSession]

\* The version a CAS is compared with: ModifyIndex, 0 for a key that is absent.
Version(k) == IF kv[k].present THEN kv[k].modIndex ELSE 0

\* KV().Acquire: the write applies iff the session is alive and the key is
\* not locked by another session.
KVAcquireWorks(k, sid) == sid \in live /\ kv[k].session \in {NoSession, sid}

KVWrite(k, v, sid) ==
    /\ kv' = [kv EXCEPT ![k] = [present |-> TRUE, value |-> v,
                                modIndex |-> index + 1, session |-> sid]]
    /\ index' = index + 1

\* Session().Destroy: the session dies and the keys it held are released
\* (their lock flag is cleared, which is a write of the key).
SessionDestroy(sid) ==
    /\ live' = live \ {sid}
    /\ IF \E k \in Keys : kv[k].session = sid
       THEN /\ kv' = [k \in Keys |->
                        IF kv[k].session = sid
                        THEN [kv[k] EXCEPT !.session = NoSession, !.modIndex = index + 1]
                        ELSE kv[k]]
            /\ index' = index + 1
       ELSE UNCHANGED <<kv, index>>

\* ------------------------------------------------------- Acquire / Release
\* The result of Acquire from what KV().Acquire returned (lines 257-263).
AcquireIgnoresWork(work, err) == IF err THEN "BackendError" ELSE "ok"

AcquireResult(work, err) ==
    IF err THEN "BackendError" ELSE IF ~work THEN "CannotLock" ELSE "ok"

\* lines 246-251: create the session of this call
AcquireCreate(a) ==
    /\ ~crashed /\ apc[a] = "idle"
    /\ \E k \in Keys, v \in Values, err \in BOOLEAN :
         /\ akey' = [akey EXCEPT ![a] = k]
         /\ aval' = [aval EXCEPT ![a] = v]
         /\ IF err
            THEN /\ apc' = [apc EXCEPT ![a] = "returned"]
                 /\ aret' = [aret EXCEPT ![a] = "BackendError"]
                 /\ UNCHANGED live
            ELSE /\ apc' = [apc EXCEPT ![a] = "created"]
                 /\ live' = live \cup {a}
                 /\ UNCHANGED aret
    /\ UNCHANGED <<kv, index, sessions, crashed, released, arejected, aafter, rlast>>
    /\ UNCHANGED <<watchVars, casVars, readVars>>

\* line 254: s.sessions[id] = session
AcquireRecord(a) ==
    /\ ~crashed /\ apc[a] = "created"
    /\ sessions' = [sessions EXCEPT ![a] = "session"]
    /\ apc' = [apc EXCEPT ![a] = "recorded"]
    /\ UNCHANGED <<kv, index, live, crashed, akey, aval, aret, released,
                   arejected, aafter, rlast>>
    /\ UNCHANGED <<watchVars, casVars, readVars>>

\* lines 256-263: the session-tagged write and the result of the call
AcquireLock(a) ==
    /\ ~crashed /\ apc[a] = "recorded"
    /\ \E fail \in BOOLEAN :
         LET k == akey[a]
             err == fail \/ a \notin live
             work == ~err /\ KVAcquireWorks(k, a)
             holder == kv[k].session
         IN /\ IF work THEN KVWrite(k, aval[a], a) ELSE UNCHANGED <<kv, index>>
            /\ aret' = [aret EXCEPT ![a] = AcquireResult(work, err)]
            /\ arejected' = [arejected EXCEPT ![a] = ~err /\ ~work]
            /\ aafter' = [aafter EXCEPT ![a] = ~err /\ ~work /\ released[holder]]
    /\ apc' = [apc EXCEPT ![a] = "returned"]
    /\ UNCHANGED <<live, sessions, crashed, akey, aval, released, rlast>>
    /\ UNCHANGED <<watchVars, casVars, readVars>>

\* The ids a caller can pass to Release: those a successful Acquire returned
\* to it, and an id this client never created.
KnownIds == {id \in SessionIds : id \notin Acquirers \/ aret[id] = "ok"}

\* lines 267-276.  The map entry of a released id is set to nil, not deleted, so
\* a second Release(id) passes the presence test and calls Destroy on a nil
\* *api.Session.  The error Destroy returns is dropped.
Release(id) ==
    /\ ~crashed
    /\ CASE sessions[id] = "absent" ->
              /\ rlast' = [rlast EXCEPT ![id] =
                             [found |-> "absent", ret |-> "SessionUndefined"]]
              /\ UNCHANGED <<kv, index, live, sessions, crashed, released>>
         [] sessions[id] = "nil" ->
              /\ crashed' = TRUE
              /\ rlast' = [rlast EXCEPT ![id] = [found |-> "nil", ret |-> "panic"]]
              /\ UNCHANGED <<kv, index, live, sessions, released>>
         [] OTHER ->
              /\ \E fail \in BOOLEAN :
                   IF fail THEN UNCHANGED <<kv, index, live>>
                           ELSE SessionDestroy(id)
              /\ sessions' = [sessions EXCEPT ![id] = "nil"]
              /\ released' = [released EXCEPT ![id] = TRUE]
              /\ rlast' = [rlast EXCEPT ![id] = [found |-> "session", ret |-> "nil"]]
              /\ UNCHANGED crashed
    /\ UNCHANGED <<apc, akey, aval, aret, arejected, aafter>>
    /\ UNCHANGED <<watchVars, casVars, readVars>>

\* ------------------------------------------------------------ Put / Delete
\* KV().Put (lines 111-118): an unconditional write; the lock flag stays.
Put(k, v) ==
    /\ ~crashed /\ index < MaxWrites
    /\ \E fail \in BOOLEAN :
         IF fail THEN UNCHANGED <<kv, index>>
                 ELSE KVWrite(k, v, kv[k].session)
    /\ UNCHANGED <<live, crashed, lockVars, watchVars, casVars, readVars>>

\* KV().Delete (lines 121-124)
Delete(k) ==
    /\ ~crashed /\ index < MaxWrites
    /\ \E fail \in BOOLEAN :
         IF fail \/ ~kv[k].present
         THEN UNCHANGED <<kv, index>>
         ELSE /\ kv' = [kv EXCEPT ![k] = NoPair]
              /\ index' = index + 1
    /\ UNCHANGED <<live, crashed, lockVars, watchVars, casVars, readVars>>

\* ------------------------------------------------------------------ Watch
\* meta.LastIndex of a read of k: the ModifyIndex of the pair, and the index
\* of the KV table when there is no such pair.
QueryIndex(k) == IF kv[k].present THEN kv[k].modIndex ELSE index

\* The blocking query of line 204 returns once the index has passed WaitIndex
\* or WaitTime has elapsed.
LongPollReturns(cur, wait, timedOut) == timedOut \/ cur > wait

\* line 165: what s.Get(key) hands to the callback
RefetchStale(k, old) == old

Refetch(k, old) == kv[k]

\* There is one Watch per target: a caller watches a target again only after
\* its earlier Watch call on that target has returned.
InCall(w) == wpc[w] \notin {"idle", "returned"}

\* lines 158-160: waitForChange makes the channel and starts the goroutine,
\* before the Watch is registered.
WatchStart(w) ==
    /\ ~crashed /\ wpc[w] = "idle"
    /\ \E k \in Keys :
         /\ \A o \in Watchers : InCall(o) => wkey[o] # k
         /\ wkey' = [wkey EXCEPT ![w] = k]
    /\ wpc' = [wpc EXCEPT ![w] = "register"]
    /\ lpc' = [lpc EXCEPT ![w] = "lookup"]
    /\ UNCHANGED <<kv, index, live, crashed, lockVars, casVars, readVars>>
    /\ UNCHANGED <<wreg, wobj, lastIndex, wret, wgot, lwatch, lwait, lmeta,
                   chClosed, lerr, wcancelled, cbVer, cwlast>>

\* line 161: s.watches[key] = &Watch{Interval: interval, EventChan: eventChan}
WatchRegister(w) ==
    /\ ~crashed /\ wpc[w] = "register"
    /\ wreg' = [wreg EXCEPT ![wkey[w]] = "watch"]
    /\ wobj' = [wobj EXCEPT ![wkey[w]] = w]
    /\ lastIndex' = [lastIndex EXCEPT ![w] = 0]
    /\ wpc' = [wpc EXCEPT ![w] = "range"]
    /\ UNCHANGED <<kv, index, live, crashed, lockVars, casVars, readVars>>
    /\ UNCHANGED <<wkey, wret, wgot, lpc, lwatch, lwait, lmeta, chClosed, lerr,
                   wcancelled, cbVer, cwlast>>

\* lines 210 and 163: the goroutine's send meets the receive of the range loop
\* (the channel is unbuffered).
Deliver(w) ==
    /\ ~crashed /\ lpc[w] = "send" /\ wpc[w] = "range"
    /\ lpc' = [lpc EXCEPT ![w] = "lookup"]
    /\ wpc' = [wpc EXCEPT ![w] = "refetch"]
    /\ UNCHANGED <<kv, index, live, crashed, lockVars, casVars, readVars>>
    /\ UNCHANGED <<wreg, wobj, lastIndex, wkey, wret, wgot, lwatch, lwait, lmeta,
                   chClosed, lerr, wcancelled, cbVer, cwlast>>

\* lines 163 and 176: the range loop ends when the channel is closed
WatchReturn(w) ==
    /\ ~crashed /\ wpc[w] = "range" /\ chClosed[w]
    /\ wpc' = [wpc EXCEPT ![w] = "returned"]
    /\ wret' = [wret EXCEPT ![w] = "nil"]
    /\ UNCHANGED <<kv, index, live, crashed, lockVars, casVars, readVars>>
    /\ UNCHANGED <<wreg, wobj, lastIndex, wkey, wgot, lpc, lwatch, lwait, lmeta,
                   chClosed, lerr, wcancelled, cbVer, cwlast>>

\* lines 165-167 and 172: the value is read again with Get
WatchRefetch(w) ==
    /\ ~crashed /\ wpc[w] = "refetch"
    /\ \E fail \in BOOLEAN :
         LET k == wkey[w]
             pair == Refetch(k, wgot[w])
             err == IF fail THEN "BackendError"
                    ELSE IF ~kv[k].present THEN "KeyNotFound" ELSE "nil"
         IN IF err # "nil"
            THEN /\ wret' = [wret EXCEPT ![w] = err]
                 /\ wpc' = [wpc EXCEPT ![w] = "teardown"]
                 /\ UNCHANGED wgot
            ELSE /\ wgot' = [wgot EXCEPT ![w] = pair]
                 /\ wpc' = [wpc EXCEPT ![w] = "callback"]
                 /\ UNCHANGED wret
    /\ UNCHANGED <<kv, index, live, crashed, lockVars, casVars, readVars>>
    /\ UNCHANGED <<wreg, wobj, lastIndex, wkey, lpc, lwatch, lwait, lmeta,
                   chClosed, lerr, wcancelled, cbVer, cwlast>>

\* lines 168-169: s.watches[key] = nil; return err
WatchTeardown(w) ==
    /\ ~crashed /\ wpc[w] = "teardown"
    /\ wreg' = [wreg EXCEPT ![wkey[w]] = "nil"]
    /\ wpc' = [wpc EXCEPT ![w] = "returned"]
    /\ UNCHANGED <<kv, index, live, crashed, lockVars, casVars, readVars>>
    /\ UNCHANGED <<wobj, lastIndex, wkey, wret, wgot, lpc, lwatch, lwait, lmeta,
                   chClosed, lerr, wcancelled, cbVer, cwlast>>

\* line 173: callback(value)
WatchCallback(w) ==
    /\ ~crashed /\ wpc[w] = "callback"
    /\ cbVer' = [cbVer EXCEPT ![w] = wgot[w].modIndex]
    /\ wgot' = [wgot EXCEPT ![w] = NoPair]
    /\ wpc' = [wpc EXCEPT ![w] = "range"]
    /\ UNCHANGED <<kv, index, live, crashed, lockVars, casVars, readVars>>
    /\ UNCHANGED <<wreg, wobj, lastIndex, wkey, wret, lpc, lwatch, lwait,
                   lmeta, chClosed, lerr, wcancelled, cwlast>>

\* lines 181-189: the entry is set to nil, not deleted
CancelWatch(k) ==
    /\ ~crashed
    /\ IF wreg[k] = "absent"
       THEN /\ cwlast' = [found |-> wreg[k], ret |-> "WatchNotFound"]
            /\ UNCHANGED <<wreg, wcancelled>>
       ELSE /\ wreg' = [wreg EXCEPT ![k] = "nil"]
            /\ cwlast' = [found |-> wreg[k], ret |-> "nil"]
            /\ wcancelled' = [w \in Watchers |->
                 wcancelled[w] \/ (wreg[k] = "watch" /\ wobj[k] = w)]
    /\ UNCHANGED <<kv, index, live, crashed, lockVars, casVars, readVars>>
    /\ UNCHANGED <<wobj, lastIndex, wpc, wkey, wret, wgot, lpc, lwatch, lwait,
                   lmeta, chClosed, lerr, cbVer>>

\* lines 196-203: look the Watch up; a missing entry ends the loop, a nil
\* entry passes the test and is dereferenced for LastIndex.
LoopLookup(w) ==
    /\ ~crashed /\ lpc[w] = "lookup"
    /\ LET k == wkey[w]
       IN CASE wreg[k] = "absent" ->
                 /\ lpc' = [lpc EXCEPT ![w] = "close"]
                 /\ UNCHANGED <<lwatch, lwait, crashed>>
            [] wreg[k] = "nil" ->
                 /\ lpc' = [lpc EXCEPT ![w] = "panic"]
                 /\ crashed' = TRUE
                 /\ UNCHANGED <<lwatch, lwait>>
            [] OTHER ->
                 /\ lwatch' = [lwatch EXCEPT ![w] = wobj[k]]
                 /\ lwait' = [lwait EXCEPT ![w] = lastIndex[wobj[k]]]
                 /\ lpc' = [lpc EXCEPT ![w] = "poll"]
                 /\ UNCHANGED crashed
    /\ UNCHANGED <<kv, index, live, lockVars, casVars, readVars>>
    /\ UNCHANGED <<wreg, wobj, lastIndex, wpc, wkey, wret, wgot, lmeta, chClosed,
                   lerr, wcancelled, cbVer, cwlast>>

\* lines 204-208: the blocking read
LoopPoll(w) ==
    /\ ~crashed /\ lpc[w] = "poll"
    /\ \E fail \in BOOLEAN, timedOut \in BOOLEAN :
         IF fail
         THEN /\ lpc' = [lpc EXCEPT ![w] = "close"]
              /\ lerr' = [lerr EXCEPT ![w] = TRUE]
              /\ UNCHANGED lmeta
         ELSE /\ LongPollReturns(QueryIndex(wkey[w]), lwait[w], timedOut)
              /\ lmeta' = [lmeta EXCEPT ![w] = QueryIndex(wkey[w])]
              /\ lpc' = [lpc EXCEPT ![w] = "store"]
              /\ UNCHANGED lerr
    /\ lwait' = [lwait EXCEPT ![w] = 0]
    /\ UNCHANGED <<kv, index, live, crashed, lockVars, casVars, readVars>>
    /\ UNCHANGED <<wreg, wobj, lastIndex, wpc, wkey, wret, wgot, lwatch,
                   chClosed, wcancelled, cbVer, cwlast>>

\* line 209: watch.LastIndex = meta.LastIndex
LoopStore(w) ==
    /\ ~crashed /\ lpc[w] = "store"
    /\ lastIndex' = [lastIndex EXCEPT ![lwatch[w]] = lmeta[w]]
    /\ lmeta' = [lmeta EXCEPT ![w] = 0]
    /\ lwatch' = [lwatch EXCEPT ![w] = w]
    /\ lpc' = [lpc EXCEPT ![w] = "send"]
    /\ UNCHANGED <<kv, index, live, crashed, lockVars, casVars, readVars>>
    /\ UNCHANGED <<wreg, wobj, wpc, wkey, wret, wgot, lwait,
                   chClosed, lerr, wcancelled, cbVer, cwlast>>

\* line 212: close(ch)
LoopClose(w) ==
    /\ ~crashed /\ lpc[w] = "close"
    /\ chClosed' = [chClosed EXCEPT ![w] = TRUE]
    /\ lpc' = [lpc EXCEPT ![w] = "done"]
    /\ UNCHANGED <<kv, index, live, crashed, lockVars, casVars, readVars>>
    /\ UNCHANGED <<wreg, wobj, lastIndex, wpc, wkey, wret, wgot, lwatch, lwait,
                   lmeta, lerr, wcancelled, cbVer, cwlast>>

\* --------------------------------------------------------- unsynchronized maps
\* s.watches and s.sessions are plain Go maps and no access holds a lock: a
\* thread whose next statement is a map access runs it whenever it is scheduled.
\* The Watch call writes s.watches at lines 161 and 168, its goroutine reads it
\* at line 196; Acquire writes s.sessions at line 254.
WatchesWriter(w) == wpc[w] \in {"register", "teardown"}
WatchesReader(w) == lpc[w] = "lookup"

WatchesRacing ==
    \/ \E w, g \in Watchers : WatchesWriter(w) /\ WatchesReader(g)
    \/ \E w, v \in Watchers : w # v /\ WatchesWriter(w) /\ WatchesWriter(v)

SessionsWriter(a) == apc[a] = "created"

SessionsRacing ==
    \E a, b \in Acquirers : a # b /\ SessionsWriter(a) /\ SessionsWriter(b)

\* Two accesses of a map that overlap, one of them a write, are a data race.
\* The accesses may still come out one after the other (the steps above), or
\* the runtime detects the overlap and ends the process ("fatal error:
\* concurrent map read and map write" / "concurrent map writes").
WatchesRace ==
    /\ ~crashed /\ WatchesRacing
    /\ crashed' = TRUE
    /\ UNCHANGED <<kv, index, live, lockVars, watchVars, casVars, readVars>>

SessionsRace ==
    /\ ~crashed /\ SessionsRacing
    /\ crashed' = TRUE
    /\ UNCHANGED <<kv, index, live, lockVars, watchVars, casVars, readVars>>

\* ------------------------------------------------- AtomicPut / AtomicDelete
\* lines 282-287: the result of AtomicPut from what KV().CAS returned
AtomicPutIgnoresWork(work, err) == IF err THEN "BackendError" ELSE "ok"

AtomicPutResult(work, err) ==
    IF err THEN "BackendError" ELSE IF ~work THEN "KeyModified" ELSE "ok"

\* lines 294-299: the result of AtomicDelete from what KV().DeleteCAS returned
AtomicDeleteIgnoresWork(work, err) == IF err THEN "BackendError" ELSE "ok"

AtomicDeleteResult(work, err) ==
    IF err THEN "BackendError" ELSE IF ~work THEN "KeyModified" ELSE "ok"

\* What every CAS call records of itself.
CasRecord(c, op, k, idx, fail, res) ==
    /\ cop' = [cop EXCEPT ![c] = op]
    /\ ckey' = [ckey EXCEPT ![c] = k]
    /\ cret' = [cret EXCEPT ![c] = res]
    /\ cfail' = [cfail EXCEPT ![c] = fail]
    /\ cmatch' = [cmatch EXCEPT ![c] = (Version(k) = idx)]
    /\ cwas' = [cwas EXCEPT ![c] = kv[k].present]
    /\ cnow' = [cnow EXCEPT ![c] = kv'[k].present]
    /\ csame' = [csame EXCEPT ![c] = (kv'[k] = kv[k])]
    /\ csecond' = [csecond EXCEPT ![c] =
          op = "put" /\ casLast = [key |-> k, idx |-> idx, at |-> index]]

NoCas == [key |-> 0, idx |-> 0, at |-> 0]

\* lines 280-288: one KV().CAS round trip; the write applies iff ModifyIndex
\* of the pair equals index (0: iff there is no such pair).
AtomicPut(c) ==
    /\ ~crashed /\ cop[c] = "none"
    /\ \E k \in Keys, v \in Values, idx \in 0..MaxWrites, fail \in BOOLEAN :
         LET work == ~fail /\ Version(k) = idx
         IN /\ IF work
               THEN /\ KVWrite(k, v, kv[k].session)
                    /\ casLast' = [key |-> k, idx |-> idx, at |-> index + 1]
               ELSE UNCHANGED <<kv, index, casLast>>
            /\ CasRecord(c, "put", k, idx, fail, AtomicPutResult(work, fail))
    /\ UNCHANGED <<live, crashed, lockVars, watchVars, readVars>>

\* lines 292-300: one KV().DeleteCAS round trip
AtomicDelete(c) ==
    /\ ~crashed /\ cop[c] = "none"
    /\ \E k \in Keys, idx \in 0..MaxWrites, fail \in BOOLEAN :
         LET work == ~fail /\ Version(k) = idx
         IN /\ IF work /\ kv[k].present
               THEN /\ kv' = [kv EXCEPT ![k] = NoPair]
                    /\ index' = index + 1
               ELSE UNCHANGED <<kv, index>>
            /\ CasRecord(c, "delete", k, idx, fail, AtomicDeleteResult(work, fail))
    /\ UNCHANGED <<live, crashed, lockVars, watchVars, casLast, readVars>>

\* ------------------------------------------------------- Exists / GetRange
\* Keys are strings, here sequences of characters.  StoredPaths are the keys
\* the table may hold, in the order KV().List returns them (by byte).
Sep == "/"
StoredPaths == << <<"a">>, <<"a", Sep, "b">>, <<"a", Sep, "c">>, <<"b">> >>
PathIds == 1..Len(StoredPaths)
\* The spellings a caller passes as key or prefix
Spellings == {<<"a">>, <<Sep, "a">>, <<"a", Sep, "b">>, <<"b">>, <<Sep, "b">>, <<"c">>}

\* The key formatter: a single leading separator is stripped.
partialFormat(key) ==
    IF Len(key) > 0 /\ Head(key) = Sep THEN Tail(key) ELSE key

HasPrefix(str, prefix) ==
    Len(prefix) <= Len(str) /\ SubSeq(str, 1, Len(prefix)) = prefix

\* The pairs of the table, in order
AllPairs == [i \in PathIds |-> [Key |-> StoredPaths[i], Value |-> tree[i]]]
IsStored(pair) == pair.Value # 0

\* KV().Get(path): the pair, nil when there is none
KVGet(path) ==
    IF \E i \in PathIds : StoredPaths[i] = path /\ tree[i] # 0
    THEN [nil |-> FALSE,
          Value |-> tree[CHOOSE i \in PathIds : StoredPaths[i] = path]]
    ELSE [nil |-> TRUE, Value |-> 0]

\* KV().List(path): the pairs whose key starts with path
KVList(path) ==
    SelectSeq(AllPairs, LAMBDA pair : IsStored(pair) /\ HasPrefix(pair.Key, path))

\* lines 99-108 (the index Get also returns is not used by Exists)
Get(key, fail) ==
    LET pair == KVGet(partialFormat(key))
    IN IF fail THEN [value |-> 0, err |-> "BackendError"]
       ELSE IF pair.nil THEN [value |-> 0, err |-> "KeyNotFound"]
       ELSE [value |-> pair.Value, err |-> "nil"]

\* lines 129-132: only KeyNotFound is passed on
ExistsResult(err) ==
    IF err # "nil" /\ err = "KeyNotFound"
    THEN [found |-> FALSE, err |-> err]
    ELSE [found |-> TRUE, err |-> "nil"]

\* lines 127-133
Exists(key) ==
    /\ ~crashed
    /\ \E fail \in BOOLEAN :
         LET res == ExistsResult(Get(key, fail).err)
         IN elast' = [key |-> key, fail |-> fail, called |-> TRUE,
                      found |-> res.found, err |-> res.err]
    /\ UNCHANGED <<kv, index, live, crashed, lockVars, watchVars, casVars>>
    /\ UNCHANGED <<tree, glast>>

\* lines 141-146: the pair whose Key equals prefix, as the caller spelled it,
\* is skipped
RangeValues(pairs, prefix) ==
    LET kept == SelectSeq(pairs, LAMBDA pair : pair.Key # prefix)
    IN [i \in 1..Len(kept) |-> kept[i].Value]

\* lines 136-148
GetRange(prefix) ==
    /\ ~crashed
    /\ \E fail \in BOOLEAN :
         glast' = [prefix |-> prefix, called |-> TRUE,
                   values |-> IF fail THEN <<>>
                              ELSE RangeValues(KVList(partialFormat(prefix)), prefix),
                   err |-> IF fail THEN "BackendError" ELSE "nil"]
    /\ UNCHANGED <<kv, index, live, crashed, lockVars, watchVars, casVars>>
    /\ UNCHANGED <<tree, elast>>

\* ------------------------------------------------------------------ specs
\* The client after InitializeConsul
InitClient ==
    /\ kv = [k \in Keys |-> NoPair]
    /\ index = 0
    /\ live = {}
    /\ sessions = [i \in SessionIds |-> "absent"]
    /\ crashed = FALSE
    /\ apc = [a \in Acquirers |-> "idle"]
    /\ akey = [a \in Acquirers |-> 1]
    /\ aval = [a \in Acquirers |-> 1]
    /\ aret = [a \in Acquirers |-> "none"]
    /\ released = [i \in SessionIds |-> FALSE]
    /\ arejected = [a \in Acquirers |-> FALSE]
    /\ aafter = [a \in Acquirers |-> FALSE]
    /\ rlast = [i \in SessionIds |-> [found |-> "absent", ret |-> "none"]]
    /\ wreg = [k \in Keys |-> "absent"]
    /\ wobj = [k \in Keys |-> 1]
    /\ lastIndex = [w \in Watchers |-> 0]
    /\ wpc = [w \in Watchers |-> "idle"]
    /\ wkey = [w \in Watchers |-> 1]
    /\ wret = [w \in Watchers |-> "none"]
    /\ wgot = [w \in Watchers |-> NoPair]
    /\ lpc = [w \in Watchers |-> "none"]
    /\ lwatch = [w \in Watchers |-> w]
    /\ lwait = [w \in Watchers |-> 0]
    /\ lmeta = [w \in Watchers |-> 0]
    /\ chClosed = [w \in Watchers |-> FALSE]
    /\ lerr = [w \in Watchers |-> FALSE]
    /\ wcancelled = [w \in Watchers |-> FALSE]
    /\ cbVer = [w \in Watchers |-> 0]
    /\ cwlast = [found |-> "absent", ret |-> "none"]
    /\ cop = [c \in CasCalls |-> "none"]
    /\ ckey = [c \in CasCalls |-> 1]
    /\ cret = [c \in CasCalls |-> "none"]
    /\ cfail = [c \in CasCalls |-> FALSE]
    /\ cmatch = [c \in CasCalls |-> FALSE]
    /\ cwas = [c \in CasCalls |-> FALSE]
    /\ cnow = [c \in CasCalls |-> FALSE]
    /\ csame = [c \in CasCalls |-> TRUE]
    /\ csecond = [c \in CasCalls |-> FALSE]
    /\ casLast = NoCas
    /\ elast = [key |-> <<>>, fail |-> FALSE, called |-> FALSE,
                found |-> FALSE, err |-> "nil"]
    /\ glast = [prefix |-> <<>>, called |-> FALSE, values |-> <<>>, err |-> "nil"]

\* ... connected to an agent whose table is empty
Init == InitClient /\ tree = [i \in PathIds |-> 0]

\* ... connected to an agent whose table holds any pairs
InitRead == InitClient /\ tree \in [PathIds -> 0..MaxValues]

NextLock ==
    \/ \E a \in Acquirers : AcquireCreate(a)
    \/ \E a \in Acquirers : AcquireRecord(a)
    \/ \E a \in Acquirers : AcquireLock(a)
    \/ \E id \in KnownIds : Release(id)
    \/ SessionsRace

SpecLock == Init /\ [][NextLock]_vars

\* Conditional writes next to plain writes of the same keys.
NextCas ==
    \/ \E k \in Keys, v \in Values : Put(k, v)
    \/ \E k \in Keys : Delete(k)
    \/ \E c \in CasCalls : AtomicPut(c)
    \/ \E c \in CasCalls : AtomicDelete(c)

SpecCas == Init /\ [][NextCas]_vars

\* Reads of a table that holds any pairs.
NextRead ==
    \/ \E key \in Spellings : Exists(key)
    \/ \E prefix \in Spellings : GetRange(prefix)

SpecRead == InitRead /\ [][NextRead]_vars

\* Everything but the start of a Watch call.
WatchSteps ==
    \/ \E k \in Keys, v \in Values : Put(k, v)
    \/ \E k \in Keys : Delete(k)
    \/ \E w \in Watchers : WatchRegister(w)
    \/ \E w \in Watchers : Deliver(w)
    \/ \E w \in Watchers : WatchReturn(w)
    \/ \E w \in Watchers : WatchRefetch(w)
    \/ \E w \in Watchers : WatchTeardown(w)
    \/ \E w \in Watchers : WatchCallback(w)
    \/ \E k \in Keys : CancelWatch(k)
    \/ \E w \in Watchers : LoopLookup(w)
    \/ \E w \in Watchers : LoopPoll(w)
    \/ \E w \in Watchers : LoopStore(w)
    \/ \E w \in Watchers : LoopClose(w)
    \/ WatchesRace

\* Watch calls on a target, one after the other.
NextWatch == WatchSteps \/ \E w \in Watchers : WatchStart(w)

SpecWatch == Init /\ [][NextWatch]_vars

\* One Watch call, not repeated after it has returned.
NextWatchOnce == WatchSteps \/ WatchStart(1)

\* The steps of goroutine w and of the Watch call w.  The Go scheduler runs
\* every runnable goroutine, and the agent answers every blocking query
\* within WaitTime.
LoopStep(w) == LoopLookup(w) \/ LoopPoll(w) \/ LoopStore(w) \/ LoopClose(w) \/ Deliver(w)
CallStep(w) ==
    \/ WatchRegister(w) \/ WatchReturn(w) \/ WatchRefetch(w)
    \/ WatchTeardown(w) \/ WatchCallback(w)

SpecWatchFair ==
    /\ Init /\ [][NextWatchOnce]_vars
    /\ \A w \in Watchers : WF_vars(LoopStep(w)) /\ WF_vars(CallStep(w))

\* ----------------------------------------------------------------- claims
\* The successful, not yet ended holders of key k as the callers see them.
LiveHolders(k) == {a \in Acquirers : aret[a] = "ok" /\ akey[a] = k /\ a \in live}

\* C1: at most one Acquire on a key succeeds while no holder has released, a
\* call whose write the backend rejects returns CannotLock, and no two live
\* sessions hold the lock on the same key.
C1_LockMutualExclusion ==
    /\ \A k \in Keys : Cardinality(LiveHolders(k)) <= 1
    /\ \A a, b \in Acquirers :
         (a # b /\ akey[a] = akey[b] /\ aret[a] = "ok" /\ aret[b] = "ok")
            => (released[a] \/ released[b])
    /\ \A a \in Acquirers :
         (apc[a] = "returned" /\ arejected[a]) => aret[a] = "CannotLock"

C1_Witness ==
    \E a, b \in Acquirers :
        /\ a # b /\ akey[a] = akey[b]
        /\ aret[a] = "ok" /\ aret[b] = "CannotLock"
        /\ ~released[a] /\ a \in live /\ b \in live

\* C2: after Acquire(k, x) returned sid1 every further Acquire(k, y) fails with
\* CannotLock until Release(sid1) was called, and once Release(sid1) has
\* returned nil no Acquire(k, y) is rejected because of sid1 any more.
C2_ReleaseThenReacquire ==
    \A a \in Acquirers : aret[a] = "CannotLock" => ~aafter[a]

\* C3: after CancelWatch on a registered watch the loop of that target ends
\* in an orderly way: it does not crash (and so can close its channel and let
\* the Watch call return).
C3_CancelTerminatesWatch ==
    \A w \in Watchers : wcancelled[w] => lpc[w] # "panic"

\* C4: a Watch call returns only after CancelWatch was called for its target
\* or a backend read of the watch failed.
C4_WatchBlocksForLifetime ==
    \A w \in Watchers :
        wpc[w] = "returned" => (wcancelled[w] \/ lerr[w] \/ wret[w] # "nil")

\* C5: when a backend read of a watch failed, the Watch call returns that
\* error, never nil, and the registry no longer holds its Watch.
C5_WatchErrorPath ==
    \A w \in Watchers :
        (wpc[w] = "returned" /\ (lerr[w] \/ wret[w] # "nil"))
            => /\ wret[w] # "nil"
               /\ ~(wreg[wkey[w]] = "watch" /\ wobj[wkey[w]] = w)

\* C6: the versions at which the callback of one watch is invoked are
\* strictly increasing.
C6_NoRedelivery ==
    [][\A w \in Watchers :
         (wpc[w] = "callback" /\ wpc'[w] = "range") => cbVer'[w] > cbVer[w]]_vars

\* C7: LastIndex of a Watch starts at 0, never decreases, and changes only by
\* the store of the index a long-poll read returned without error.
C7_CursorInvariant ==
    /\ \A w \in Watchers : lastIndex[w] = 0
    /\ [][\A w \in Watchers :
            /\ lastIndex'[w] >= lastIndex[w]
            /\ lastIndex'[w] # lastIndex[w] =>
                  \E g \in Watchers : /\ lpc[g] = "store" /\ lpc'[g] = "send"
                                       /\ lwatch[g] = w /\ ~lerr[g]
                                       /\ lastIndex'[w] = lmeta[g]]_vars

\* C8: once the writes to a watched key have stopped at version v, a watch
\* that stays active has its callback invoked with the pair of version v, and
\* no callback ever gets an older pair than the one before it.
Watching(w) == ~crashed /\ wpc[w] \in {"range", "refetch", "callback"}

C8_EventualDelivery ==
    /\ \A w \in Watchers, k \in Keys, v \in 1..MaxWrites :
          <>[](kv[k].present /\ kv[k].modIndex = v)
             => <>[](~(Watching(w) /\ wkey[w] = k) \/ cbVer[w] = v)
    /\ [][\A w \in Watchers : cbVer'[w] >= cbVer[w]]_vars

C8_Witness ==
    \E w \in Watchers :
        /\ Watching(w) /\ index = MaxWrites /\ index > 1
        /\ kv[wkey[w]].present /\ kv[wkey[w]].modIndex = index
        /\ cbVer[w] = index /\ lastIndex[w] = index

\* C9: AtomicPut applies, and returns (true, nil), only if the version of the
\* key equals the expected one; of two AtomicPut calls on a key with the same
\* expected version, one right after the other, the first applies when the
\* version is current and the second returns (false, KeyModified); a call
\* that returns KeyModified left value and version of the key as they were.
PutCalls == {c \in CasCalls : cop[c] = "put"}

C9_AtomicPutCAS ==
    \A c \in PutCalls :
        /\ cret[c] = "ok" => (cmatch[c] /\ ~csame[c] /\ ~csecond[c])
        /\ cret[c] = "KeyModified" => (~cmatch[c] /\ csame[c])
        /\ (cmatch[c] /\ ~cfail[c]) => cret[c] = "ok"
        /\ (csecond[c] /\ ~cfail[c]) => cret[c] = "KeyModified"

C9_Witness ==
    \E c, d \in PutCalls :
        /\ c # d /\ ckey[c] = ckey[d] /\ cwas[c]
        /\ cret[c] = "ok" /\ csecond[d] /\ cret[d] = "KeyModified"

\* C10: AtomicDelete removes the key, and returns (true, nil), only if the
\* version of the key equals the expected one; on a mismatch it returns
\* (false, KeyModified) and the pair is as it was; a failed round trip is
\* reported as another error than KeyModified.
DeleteCalls == {c \in CasCalls : cop[c] = "delete"}

C10_AtomicDeleteCAS ==
    \A c \in DeleteCalls :
        /\ cret[c] = "ok" => (cmatch[c] /\ ~cnow[c])
        /\ cret[c] = "KeyModified" => (~cmatch[c] /\ csame[c] /\ cnow[c] = cwas[c])
        /\ (~cmatch[c] /\ ~cfail[c]) => cret[c] = "KeyModified"
        /\ cfail[c] => (cret[c] = "BackendError" /\ csame[c])

C10_Witness ==
    \E c, d \in DeleteCalls :
        /\ ckey[c] = ckey[d]
        /\ cret[c] = "KeyModified" /\ cwas[c] /\ cnow[c]
        /\ cret[d] = "ok" /\ cwas[d] /\ ~cnow[d]

\* C11: CancelWatch(target) returns WatchNotFound whenever no Watch is
\* registered for the target at the call: the target was never watched, or its
\* Watch was destroyed by an earlier CancelWatch or by a read failure.
C11_CancelWatchNotFound ==
    (cwlast.ret # "none" /\ cwlast.found # "watch") => cwlast.ret = "WatchNotFound"

\* C12: Release(id) returns SessionUndefined for every id the session map does
\* not hold a session for, and a Release(id) that returned nil has removed the
\* mapping of id, so that a second Release(id) returns SessionUndefined.
C12_ReleaseUnknownId ==
    \A id \in SessionIds :
        /\ (rlast[id].ret # "none" /\ rlast[id].found # "session")
               => rlast[id].ret = "SessionUndefined"
        /\ released[id] => sessions[id] = "absent"

\* C13: Exists(key) returns (false, KeyNotFound) when the key is absent,
\* (true, nil) when it is present, and the error of a failed read as it is,
\* never (true, nil).
C13_ExistsErrorPropagation ==
    elast.called =>
        LET present == ~KVGet(partialFormat(elast.key)).nil
        IN /\ elast.fail => (elast.err = "BackendError" /\ ~elast.found)
           /\ (~elast.fail /\ ~present) =>
                 (~elast.found /\ elast.err = "KeyNotFound")
           /\ (~elast.fail /\ present) => (elast.found /\ elast.err = "nil")

\* C14: GetRange(prefix) returns, in the order of the table, the values of the
\* pairs stored under the formatted prefix other than the pair whose key is
\* the formatted prefix, whatever the spelling of the prefix; an empty subtree
\* gives the empty sequence and no error.
EntriesUnder(prefix) ==
    LET under == SelectSeq(AllPairs, LAMBDA pair :
                    /\ IsStored(pair)
                    /\ HasPrefix(pair.Key, partialFormat(prefix))
                    /\ pair.Key # partialFormat(prefix))
    IN [i \in 1..Len(under) |-> under[i].Value]

C14_GetRangeExcludesPrefix ==
    (glast.called /\ glast.err = "nil") => glast.values = EntriesUnder(glast.prefix)

\* C15: the accesses of s.watches and of s.sessions exclude one another: no
\* thread is free to write one of the maps while another thread is free to read
\* or write the same map.
C15_SynchronizedRegistries == ~WatchesRacing /\ ~SessionsRacing

\* C16: when CancelWatch(k) is called while the blocking read of the loop is
\* in flight, the loop does not leave that read by the read completing (a
\* version change or the heartbeat), and after the cancel the loop starts no
\* further blocking read.
C16_PromptCancellation ==
    [][\A w \in Watchers :
         wcancelled[w] => /\ ~(lpc[w] = "poll" /\ lpc'[w] = "store")
                          /\ ~(lpc[w] = "lookup" /\ lpc'[w] = "poll")]_vars

\* C17: once an Acquire call has returned, the session map holds its id only
\* if the call succeeded and the id was not released since; ids no Acquire
\* created are never in the map.
C17_SessionMapSuccessOnly ==
    \A id \in SessionIds :
        sessions[id] # "absent" =>
            /\ id \in Acquirers
            /\ apc[id] = "returned" => (aret[id] = "ok" /\ ~released[id])

\* C18: once CancelWatch(target) has returned, the callback of the watch it
\* cancelled is not invoked again.
C18_NoDeliveryAfterCancel ==
    [][\A w \in Watchers :
         wcancelled[w] => ~(wpc[w] = "callback" /\ wpc'[w] = "range")]_vars

\* C19: once a Watch call has returned, the goroutine it started is not
\* blocked sending on the channel of that call, which no one receives from
\* any more.
C19_NoLeakedLoop ==
    \A w \in Watchers : wpc[w] = "returned" => lpc[w] # "send"

\* C20: the loop never finds a nil entry for its target in s.watches, and
\* Release never finds a nil entry for its id in s.sessions.
C20_NoNilEntryDereferenced ==
    /\ \A w \in Watchers : lpc[w] # "panic"
    /\ \A id \in SessionIds : rlast[id].found # "nil"

====
